---- MODULE Spec2Model ----
(***************************************************************************)
(* Model of check_domain_expiration_rdap.py: the resolution of a domain    *)
(* (Expiration.probe -> expiration -> find_rdap_server / parse_ldap), run  *)
(* again and again over the same on-disk HTTP cache.                       *)
(* Every network answer (bootstrap document, RDAP responses, registrar     *)
(* CSV) is an input chosen by the environment when the request is made.    *)
(***************************************************************************)
EXTENDS Integers, Sequences, FiniteSets, TLC

VARIABLES
    domain,          \* the domain being resolved, as its dot-separated labels
    pc,              \* where the resolution stands
    bootstrap,       \* the answer to the bootstrap fetch (req in find_rdap_server)
    rdap_server,     \* the registry RDAP base URL found for the tld
    registryResp,    \* the answer to the registry RDAP lookup
    raw_expiration,  \* what parse_ldap returned for the registry
    csv,             \* the answer to the registrar CSV fetch
    registrar_url,   \* registrar_row[3] of the matching row
    registrarResp,   \* the answer to the registrar RDAP lookup
    result,          \* what probe() returned or raised
    netlog,          \* the requests sent so far, in order
    parsed,          \* how many RDAP bodies were parsed as JSON
    today,           \* the last value read from datetime.datetime.now()
    cache,           \* the URLs with a fresh response in /tmp/iana_rdap_cache
    run              \* the number of this run of the check

vars == <<domain, pc, bootstrap, rdap_server, registryResp, raw_expiration,
          csv, registrar_url, registrarResp, result, netlog, parsed, today,
          cache, run>>

----------------------------------------------------------------------------
(* Bounds of the model *)

\* longest registrar CSV, in rows
MaxRows == 2
\* most label groups in a bootstrap document
MaxGroups == 2
\* successive runs of the check sharing the on-disk cache
MaxRuns == 2

----------------------------------------------------------------------------
(* Python values: a JSON/list element is a string, an integer or something *)
(* else (dict, list, bool, None).                                          *)

Str(s) == [t |-> "str", v |-> s, i |-> 0]
Int_(n) == [t |-> "int", v |-> "", i |-> n]
Obj == [t |-> "obj", v |-> "", i |-> 0]

\* s[k] of a Python list, 0-based; the caller checks the length
At0(s, k) == s[k + 1]

----------------------------------------------------------------------------
(* str.lower() on the registrar names of the model *)

lower(s) ==
    CASE s = "Reg A" -> "reg a"
      [] s = "REG A" -> "reg a"
      [] s = "reg a" -> "reg a"
      [] s = "Reg B" -> "reg b"
      [] s = "reg b" -> "reg b"
      [] s = "Registrar Name" -> "registrar name"
      [] OTHER -> s

----------------------------------------------------------------------------
(* The outcome of a resolution as seen by the caller of Expiration.probe   *)

NoResult == [kind |-> "none", class |-> "", days |-> 0]
Returned(d) == [kind |-> "ok", class |-> "", days |-> d]
\* nagiosplugin.CheckError raised at one of the raise sites of the script
CheckError(c) == [kind |-> "CheckError", class |-> c, days |-> 0]
\* any other exception type leaving probe()
Leaked(e) == [kind |-> "leak", class |-> e, days |-> 0]
\* a call that never returns
Hang == [kind |-> "hang", class |-> "", days |-> 0]

\* Expiration.probe: only requests.exceptions.ConnectionError is caught and
\* re-raised as a CheckError; everything else propagates unchanged
probe(r) ==
    IF r.kind = "leak" /\ r.class = "ConnectionError"
    THEN CheckError("RdapConnectionFailed")
    ELSE r

----------------------------------------------------------------------------
(* find_rdap_server                                                        *)

Domains == { <<"example", "com">>, <<"example", "org">>,
             <<"example", "zz">>, <<"localhost">>, <<"example", "COM">> }

\* domain.split('.')[-1]
tld(d) == d[Len(d)]

Group(ls, us) == [labels |-> ls, urls |-> us]

SeqsUpTo(S, n) == UNION { [1..k -> S] : k \in 0..n }

GroupSet ==
    { Group(<<"com">>, <<"https://r1/", "https://r2/">>),
      Group(<<"com", "org">>, <<"https://r2/">>),
      Group(<<"org">>, <<"https://r1/">>),
      Group(<<"org">>, <<>>),
      Group(<<>>, <<>>) }

\* the 'services' list of the bootstrap documents of the model
BootstrapDocs == SeqsUpTo(GroupSet, MaxGroups)

\* what session.get(...dns.json) can do
BootstrapAnswers ==
    { [kind |-> k, services |-> <<>>] :
          k \in {"ConnectionError", "ReadTimeout", "notjson"} }
    \cup { [kind |-> "ok", services |-> s] : s \in BootstrapDocs }

RECURSIVE FlattenGroup_LastUrl(_, _, _)
\* the rows of a group carrying the last URL of its list instead of v[0]
FlattenGroup_LastUrl(k, v, j) ==
    IF j > Len(k) THEN <<>>
    ELSE <<[name |-> k[j], url |-> v[Len(v)]]>> \o FlattenGroup_LastUrl(k, v, j + 1)

RECURSIVE FlattenGroup(_, _, _)
\* for x in k: list2dict.append({'name': x, 'url': v[0]})
FlattenGroup(k, v, j) ==
    IF j > Len(k) THEN <<>>
    ELSE <<[name |-> k[j], url |-> At0(v, 0)]>> \o FlattenGroup(k, v, j + 1)

RECURSIVE list2dict(_, _)
\* the flat label -> url rows, in document order, from group g on
list2dict(services, g) ==
    IF g > Len(services) THEN <<>>
    ELSE FlattenGroup(services[g].labels, services[g].urls, 1)
         \o list2dict(services, g + 1)

\* v[0] raises IndexError for a group with labels and an empty url list
FlattenFails(services) ==
    \E g \in 1..Len(services) :
        Len(services[g].labels) > 0 /\ Len(services[g].urls) = 0

\* df[df.name == tld]: the rows of the frame whose name is the tld
MatchingRows(rows, t) == SelectSeq(rows, LAMBDA r : r.name = t)

\* the outcome of find_rdap_server: [exc, url]
find_rdap_server(ans, d) ==
    IF ans.kind = "ConnectionError" THEN [exc |-> Leaked("ConnectionError"), url |-> ""]
    ELSE IF ans.kind = "ReadTimeout" THEN [exc |-> Leaked("ReadTimeout"), url |-> ""]
    ELSE IF ans.kind = "notjson" THEN [exc |-> Leaked("JSONDecodeError"), url |-> ""]
    ELSE IF FlattenFails(ans.services) THEN [exc |-> Leaked("IndexError"), url |-> ""]
    ELSE LET rows == list2dict(ans.services, 1) IN
         \* an empty DataFrame has no column 'name'
         IF Len(rows) = 0 THEN [exc |-> Leaked("AttributeError"), url |-> ""]
         ELSE IF Len(MatchingRows(rows, tld(d))) = 0
              THEN [exc |-> CheckError("NoRdapServerForTld"), url |-> ""]
              ELSE [exc |-> NoResult, url |-> MatchingRows(rows, tld(d))[1].url]

----------------------------------------------------------------------------
(* RDAP responses                                                          *)

SecondsPerDay == 86400

\* an ISO-8601 date-time string: its date portion as a day number, its
\* time portion in seconds; wellformed is whether '%Y-%m-%d' parses the
\* part before 'T'
DateTime(d, s) == [wellformed |-> TRUE, day |-> d, secs |-> s]
BadDate == [wellformed |-> FALSE, day |-> 0, secs |-> 0]

\* one member of 'events'; hasDate is whether the key eventDate is present
Event(a, has, dt) == [eventAction |-> a, hasDate |-> has, eventDate |-> dt]

\* one member of 'entities'; hasRoles / hasVcard are whether the keys
\* roles / vcardArray are present, lines is vcardArray[1]
Entity(hasR, rs, hasV, ls) ==
    [hasRoles |-> hasR, roles |-> rs, hasVcard |-> hasV, lines |-> ls]

Body(isjson, evs, ents) == [json |-> isjson, events |-> evs, entities |-> ents]

fnLine(value) == <<Str("fn"), Obj, Str("text"), value>>
emailLine == <<Str("email"), Obj, Str("text"), Str("hostmaster@example")>>
registrarEntity(name) ==
    Entity(TRUE, {"registrar"}, TRUE, <<fnLine(Str(name)), emailLine>>)

expirationEvent(d, s) == Event("expiration", TRUE, DateTime(d, s))
registrationEvent == Event("registration", TRUE, DateTime(0, 0))

RegistrarNames == {"Reg A", "REG A", "Reg B"}

ReferralBodies ==
    { Body(TRUE, <<registrationEvent>>, <<registrarEntity(n)>>) :
          n \in RegistrarNames }

ExpirationBodies ==
    { Body(TRUE, <<registrationEvent, expirationEvent(31, 0)>>, <<>>),
      Body(TRUE, <<expirationEvent(31, 43200)>>, <<registrarEntity("Reg A")>>),
      Body(TRUE, <<expirationEvent(-1, 0)>>, <<>>) }

AmbiguousBodies ==
    { Body(TRUE, <<expirationEvent(31, 0), expirationEvent(40, 0)>>, <<>>),
      Body(TRUE, <<expirationEvent(31, 0), expirationEvent(31, 0)>>,
                 <<registrarEntity("Reg A")>>) }

BrokenBodies ==
    { \* not JSON at all
      Body(FALSE, <<>>, <<>>),
      \* neither events nor entities
      Body(TRUE, <<>>, <<>>),
      \* entities, none of them a registrar
      Body(TRUE, <<>>, <<Entity(TRUE, {"technical"}, TRUE, <<emailLine>>)>>),
      \* an entity without roles
      Body(TRUE, <<>>, <<Entity(FALSE, {}, TRUE, <<emailLine>>)>>),
      \* a registrar without vcardArray
      Body(TRUE, <<>>, <<Entity(TRUE, {"registrar"}, FALSE, <<>>)>>),
      \* a registrar whose vCard has no fn line
      Body(TRUE, <<>>, <<Entity(TRUE, {"registrar"}, TRUE, <<emailLine>>)>>),
      \* a registrar whose fn value is structured, not a string
      Body(TRUE, <<>>, <<Entity(TRUE, {"registrar"}, TRUE, <<fnLine(Obj)>>)>>),
      \* a registrar whose fn line is too short
      Body(TRUE, <<>>, <<Entity(TRUE, {"registrar"}, TRUE, <<<<Str("fn")>>>>)>>),
      \* one expiration event without eventDate
      Body(TRUE, <<Event("expiration", FALSE, BadDate)>>, <<>>),
      \* one expiration event whose date does not parse
      Body(TRUE, <<Event("expiration", TRUE, BadDate)>>, <<>>) }

Bodies == ReferralBodies \cup ExpirationBodies \cup AmbiguousBodies
          \cup BrokenBodies

Statuses == {200, 403, 404, 409, 503, 500}

Response(s, b) == [kind |-> "response", status |-> s, body |-> b]
NoResponse(k) == [kind |-> k, status |-> 0, body |-> Body(FALSE, <<>>, <<>>)]

\* what requests.get(f'{rdap_server}domain/{domain}') can do
RdapAnswers ==
    { Response(s, b) : s \in Statuses, b \in Bodies }
    \cup { NoResponse("ConnectionError") }
    \* the server accepts the connection and never answers
    \cup { NoResponse("never") }

\* datetime.datetime.now(): day number and seconds into the day
Nows == { [day |-> 0, secs |-> 0], [day |-> 0, secs |-> 50000] }

\* the clock has not been read yet
NoClock == [day |-> 0, secs |-> 0]

\* whether parse_ldap gets as far as line 97 and reads the clock
readsClock(ans) ==
    /\ ans.kind = "response"
    /\ ans.status \notin {403, 404, 409, 503}
    /\ ans.body.json
    /\ Len(SelectSeq(ans.body.events, LAMBDA e : e.eventAction = "expiration")) = 1
    /\ SelectSeq(ans.body.events, LAMBDA e : e.eventAction = "expiration")[1].hasDate

\* requests refuses a URL without a scheme before sending anything
ValidUrl(u) == u # ""

\* the events whose eventAction is 'expiration', in order
expirationEvents(evs) ==
    SelectSeq(evs, LAMBDA e : e.eventAction = "expiration")

\* the entities whose roles contain 'registrar', in order
registrarEntities(ents) ==
    SelectSeq(ents, LAMBDA e : "registrar" \in e.roles)

\* 'fn' in line
HasFn(line) == \E j \in 1..Len(line) : line[j] = Str("fn")

\* the day difference rounded toward zero instead of down
days_TowardZero(dt, now) ==
    LET delta == (dt.day - now.day) * SecondsPerDay - now.secs IN
    IF delta >= 0 THEN delta \div SecondsPerDay
    ELSE 0 - ((0 - delta) \div SecondsPerDay)

\* (strptime(fecha, '%Y-%m-%d') - now).days, fecha the part before 'T'
days(dt, now) ==
    ((dt.day - now.day) * SecondsPerDay - now.secs) \div SecondsPerDay

Ret(e, v, p) == [exc |-> e, val |-> v, parsedBody |-> p]

\* lines 82-93: the registrar name(s) appended to raw_expiration
registrarBranch(ents) ==
    IF \E j \in 1..Len(ents) : ~ents[j].hasRoles
    THEN Ret(Leaked("TypeError"), <<>>, TRUE)
    ELSE LET regs == registrarEntities(ents) IN
         IF Len(regs) = 0 THEN Ret(Leaked("IndexError"), <<>>, TRUE)
         ELSE IF ~regs[1].hasVcard THEN Ret(Leaked("TypeError"), <<>>, TRUE)
         ELSE LET fns == SelectSeq(regs[1].lines, HasFn) IN
              IF \E j \in 1..Len(fns) : Len(fns[j]) < 4
              THEN Ret(Leaked("IndexError"), <<>>, TRUE)
              ELSE Ret(NoResult, [j \in 1..Len(fns) |-> At0(fns[j], 3)], TRUE)

\* parse_ldap reading the body before it looks at the status code
parse_ldap_BodyFirst(ans, now) ==
    IF ans.kind = "ConnectionError" THEN Ret(Leaked("ConnectionError"), <<>>, FALSE)
    \* no timeout is passed at line 49: the call blocks for ever
    ELSE IF ans.kind = "never" THEN Ret(Hang, <<>>, FALSE)
    ELSE IF ~ans.body.json THEN Ret(Leaked("JSONDecodeError"), <<>>, TRUE)
    ELSE IF ans.status = 403 THEN Ret(CheckError("RdapServerRefused"), <<>>, TRUE)
    ELSE IF ans.status = 404 THEN Ret(CheckError("DomainNotFound"), <<>>, TRUE)
    ELSE IF ans.status = 409 THEN Ret(CheckError("RdapRateLimited"), <<>>, TRUE)
    ELSE IF ans.status = 503 THEN Ret(CheckError("RdapServerBroken"), <<>>, TRUE)
    ELSE LET exps == expirationEvents(ans.body.events) IN
         IF Len(exps) = 0 THEN registrarBranch(ans.body.entities)
         ELSE IF Len(exps) = 1
         THEN IF ~exps[1].hasDate THEN Ret(Leaked("AttributeError"), <<>>, TRUE)
              ELSE IF ~exps[1].eventDate.wellformed
                   THEN Ret(Leaked("ValueError"), <<>>, TRUE)
                   ELSE Ret(NoResult, <<Int_(days(exps[1].eventDate, now))>>, TRUE)
         ELSE Ret(CheckError("AmbiguousExpirationData"), <<>>, TRUE)

\* parse_ldap taking the first of several expiration events
parse_ldap_FirstEvent(ans, now) ==
    IF ans.kind = "ConnectionError" THEN Ret(Leaked("ConnectionError"), <<>>, FALSE)
    \* no timeout is passed at line 49: the call blocks for ever
    ELSE IF ans.kind = "never" THEN Ret(Hang, <<>>, FALSE)
    ELSE IF ans.status = 403 THEN Ret(CheckError("RdapServerRefused"), <<>>, FALSE)
    ELSE IF ans.status = 404 THEN Ret(CheckError("DomainNotFound"), <<>>, FALSE)
    ELSE IF ans.status = 409 THEN Ret(CheckError("RdapRateLimited"), <<>>, FALSE)
    ELSE IF ans.status = 503 THEN Ret(CheckError("RdapServerBroken"), <<>>, FALSE)
    ELSE IF ~ans.body.json THEN Ret(Leaked("JSONDecodeError"), <<>>, TRUE)
    ELSE LET exps == expirationEvents(ans.body.events) IN
         IF Len(exps) = 0 THEN registrarBranch(ans.body.entities)
         ELSE IF ~exps[1].hasDate THEN Ret(Leaked("AttributeError"), <<>>, TRUE)
              ELSE IF ~exps[1].eventDate.wellformed
                   THEN Ret(Leaked("ValueError"), <<>>, TRUE)
                   ELSE Ret(NoResult, <<Int_(days(exps[1].eventDate, now))>>, TRUE)

\* parse_ldap treating every 5xx status as a broken server
parse_ldap_ServerErrors(ans, now) ==
    IF ans.kind = "ConnectionError" THEN Ret(Leaked("ConnectionError"), <<>>, FALSE)
    ELSE IF ans.kind = "never" THEN Ret(Hang, <<>>, FALSE)
    ELSE IF ans.status = 403 THEN Ret(CheckError("RdapServerRefused"), <<>>, FALSE)
    ELSE IF ans.status = 404 THEN Ret(CheckError("DomainNotFound"), <<>>, FALSE)
    ELSE IF ans.status = 409 THEN Ret(CheckError("RdapRateLimited"), <<>>, FALSE)
    ELSE IF ans.status >= 500 THEN Ret(CheckError("RdapServerBroken"), <<>>, FALSE)
    ELSE IF ~ans.body.json THEN Ret(Leaked("JSONDecodeError"), <<>>, TRUE)
    ELSE LET exps == expirationEvents(ans.body.events) IN
         IF Len(exps) = 0 THEN registrarBranch(ans.body.entities)
         ELSE IF Len(exps) = 1
         THEN IF ~exps[1].hasDate THEN Ret(Leaked("AttributeError"), <<>>, TRUE)
              ELSE IF ~exps[1].eventDate.wellformed
                   THEN Ret(Leaked("ValueError"), <<>>, TRUE)
                   ELSE Ret(NoResult, <<Int_(days(exps[1].eventDate, now))>>, TRUE)
         ELSE Ret(CheckError("AmbiguousExpirationData"), <<>>, TRUE)

\* the outcome of parse_ldap for one answer of the server
parse_ldap(ans, now) ==
    IF ans.kind = "ConnectionError" THEN Ret(Leaked("ConnectionError"), <<>>, FALSE)
    \* no timeout is passed at line 49: the call blocks for ever
    ELSE IF ans.kind = "never" THEN Ret(Hang, <<>>, FALSE)
    ELSE IF ans.status = 403 THEN Ret(CheckError("RdapServerRefused"), <<>>, FALSE)
    ELSE IF ans.status = 404 THEN Ret(CheckError("DomainNotFound"), <<>>, FALSE)
    ELSE IF ans.status = 409 THEN Ret(CheckError("RdapRateLimited"), <<>>, FALSE)
    ELSE IF ans.status = 503 THEN Ret(CheckError("RdapServerBroken"), <<>>, FALSE)
    ELSE IF ~ans.body.json THEN Ret(Leaked("JSONDecodeError"), <<>>, TRUE)
    ELSE LET exps == expirationEvents(ans.body.events) IN
         IF Len(exps) = 0 THEN registrarBranch(ans.body.entities)
         ELSE IF Len(exps) = 1
         THEN IF ~exps[1].hasDate THEN Ret(Leaked("AttributeError"), <<>>, TRUE)
              ELSE IF ~exps[1].eventDate.wellformed
                   THEN Ret(Leaked("ValueError"), <<>>, TRUE)
                   ELSE Ret(NoResult, <<Int_(days(exps[1].eventDate, now))>>, TRUE)
         ELSE Ret(CheckError("AmbiguousExpirationData"), <<>>, TRUE)

----------------------------------------------------------------------------
(* The registrar directory (registrar-ids-1.csv)                           *)

RowSet ==
    { <<"1", "Reg A", "Accredited", "https://a/">>,
      <<"2", "reg a", "Accredited", "https://b/">>,
      <<"3", "Reg B", "Terminated", "">>,
      \* a row without the RDAP column
      <<"9", "Reg A">>,
      \* an empty line
      <<>> }

\* what session.get(...registrar-ids-1.csv) can do
CsvAnswers ==
    { [kind |-> k, rows |-> <<>>] : k \in {"ConnectionError", "ReadTimeout"} }
    \cup { [kind |-> "ok", rows |-> r] : r \in SeqsUpTo(RowSet, MaxRows) }

RECURSIVE scan(_, _, _)
\* lines 126-145: the loop over the rows from row j on, up to the re-query
scan(rows, name, j) ==
    IF j > Len(rows)
    \* line 144 reads .url of the decoded text, a str
    THEN [exc |-> Leaked("AttributeError"), url |-> ""]
    ELSE IF Len(rows[j]) < 2 THEN [exc |-> Leaked("IndexError"), url |-> ""]
    ELSE IF lower(At0(rows[j], 1)) = lower(name)
         THEN IF Len(rows[j]) < 4 THEN [exc |-> Leaked("IndexError"), url |-> ""]
              ELSE [exc |-> NoResult, url |-> At0(rows[j], 3)]
         ELSE scan(rows, name, j + 1)

\* the outcome of the registrar directory lookup for one answer
registrar_lookup(ans, name) ==
    IF ans.kind = "ConnectionError" THEN [exc |-> Leaked("ConnectionError"), url |-> ""]
    ELSE IF ans.kind = "ReadTimeout" THEN [exc |-> Leaked("ReadTimeout"), url |-> ""]
    ELSE scan(ans.rows, name, 1)

----------------------------------------------------------------------------
(* The resolution                                                          *)

\* one call of session.get / requests.get: cached is whether it goes
\* through the CachedSession, timeout whether a timeout is passed, network
\* whether a request leaves for the network
Request(o, u, d, c, t, n) ==
    [op |-> o, url |-> u, domain |-> d, cached |-> c, timeout |-> t,
     network |-> n]

BootstrapUrl == "https://data.iana.org/rdap/dns.json"
RegistrarIdsUrl == "https://www.iana.org/assignments/registrar-ids/registrar-ids-1.csv"

\* session.get without any cache in front of it
servedFromCache_Never(url, c) == FALSE

\* CachedSession: a fresh cached response for the URL is returned without
\* a network request
servedFromCache(url, c) == url \in c

\* CachedSession: a response that arrived over the network is stored under
\* its URL; an exception stores nothing
cacheAfter(url, c, kind) ==
    IF servedFromCache(url, c) \/ kind \in {"ConnectionError", "ReadTimeout"}
    THEN c
    ELSE c \cup {url}

\* the answers a fresh cache entry can hold: responses, never exceptions
Storable(kind) == kind \notin {"ConnectionError", "ReadTimeout"}

\* line 49 going through the CachedSession as lines 27 and 120 do
rdap_get_ViaSession(url, d, c) ==
    [request |-> Request("rdap", url, d, TRUE, FALSE, ~servedFromCache(url, c)),
     cache |-> c \cup {url}]

\* line 49: requests.get, no session, no timeout argument
rdap_get(url, d, c) ==
    [request |-> Request("rdap", url, d, FALSE, FALSE, TRUE), cache |-> c]

NoBootstrap == [kind |-> "none", services |-> <<>>]
NoCsv == [kind |-> "none", rows |-> <<>>]

Init ==
    /\ domain \in Domains
    /\ pc = "find_rdap_server"
    /\ bootstrap = NoBootstrap
    /\ rdap_server = ""
    /\ registryResp = NoResponse("none")
    /\ raw_expiration = <<>>
    /\ csv = NoCsv
    /\ registrar_url = ""
    /\ registrarResp = NoResponse("none")
    /\ result = NoResult
    /\ netlog = <<>>
    /\ parsed = 0
    /\ today = NoClock
    /\ cache = {}
    /\ run = 1

\* line 111, inner call: find_rdap_server(domain)
FindRdapServer ==
    /\ pc = "find_rdap_server"
    /\ \E ans \in BootstrapAnswers :
          LET r == find_rdap_server(ans, domain) IN
          /\ servedFromCache(BootstrapUrl, cache) => Storable(ans.kind)
          /\ bootstrap' = ans
          /\ netlog' = Append(netlog, Request("bootstrap", BootstrapUrl, <<>>, TRUE, TRUE,
                                              ~servedFromCache(BootstrapUrl, cache)))
          /\ cache' = cacheAfter(BootstrapUrl, cache, ans.kind)
          /\ rdap_server' = r.url
          /\ IF r.exc = NoResult
             THEN pc' = "registry_query" /\ result' = result
             ELSE pc' = "done" /\ result' = probe(r.exc)
    /\ UNCHANGED <<domain, registryResp, raw_expiration, csv, registrar_url,
                   registrarResp, parsed, today, run>>

\* the dispatch going to the registrar whatever the registry returned
dispatch_AlwaysFallback(r) ==
    IF r.exc # NoResult THEN r.exc
    ELSE IF Len(r.val) = 0 THEN Leaked("IndexError")
    ELSE NoResult

\* lines 111-117 and 147-150: parse_ldap against the registry, and the
\* dispatch on the type of raw_expiration[0]
dispatch(r) ==
    IF r.exc # NoResult THEN r.exc
    ELSE IF Len(r.val) = 0 THEN Leaked("IndexError")
    ELSE IF At0(r.val, 0).t = "int" THEN Returned(At0(r.val, 0).i)
    ELSE IF At0(r.val, 0).t = "str" THEN NoResult
    \* line 148: raw_expiration[0] is neither an int nor a str
    ELSE CheckError("NoExpirationAndNoRegistrar")

RegistryQuery ==
    /\ pc = "registry_query"
    /\ \E ans \in RdapAnswers, now \in Nows :
          LET r == parse_ldap(ans, now)
              out == dispatch(r) IN
          /\ registryResp' = IF r.exc = Hang THEN registryResp ELSE ans
          /\ netlog' = Append(netlog, rdap_get(rdap_server, domain, cache).request)
          /\ cache' = rdap_get(rdap_server, domain, cache).cache
          /\ parsed' = parsed + (IF r.parsedBody THEN 1 ELSE 0)
          /\ raw_expiration' = r.val
          /\ today' = IF readsClock(ans) THEN now ELSE today
          /\ IF out = NoResult
             THEN pc' = "registrar_lookup" /\ result' = result
             ELSE IF out = Hang
             THEN pc' = "hung" /\ result' = result
             ELSE pc' = "done" /\ result' = probe(out)
    \* req and df are locals of find_rdap_server: once it has returned,
    \* only the url is left of the bootstrap document
    /\ bootstrap' = NoBootstrap
    /\ UNCHANGED <<domain, rdap_server, csv, registrar_url, registrarResp, run>>

\* lines 118-134 and 142-145: fetch the CSV and look the registrar up
RegistrarLookup ==
    /\ pc = "registrar_lookup"
    /\ \E ans \in CsvAnswers :
          LET r == registrar_lookup(ans, At0(raw_expiration, 0).v) IN
          /\ servedFromCache(RegistrarIdsUrl, cache) => Storable(ans.kind)
          /\ csv' = ans
          /\ netlog' = Append(netlog, Request("csv", RegistrarIdsUrl, <<>>, TRUE, TRUE,
                                              ~servedFromCache(RegistrarIdsUrl, cache)))
          /\ cache' = cacheAfter(RegistrarIdsUrl, cache, ans.kind)
          /\ registrar_url' = r.url
          /\ IF r.exc = NoResult
             THEN pc' = "registrar_query" /\ result' = result
             ELSE pc' = "done" /\ result' = probe(r.exc)
    /\ UNCHANGED <<domain, bootstrap, rdap_server, registryResp, raw_expiration,
                   registrarResp, parsed, today, run>>

\* lines 136-141: the type test on registrar_expiration[0]
fallback(r) ==
    IF r.exc # NoResult THEN r.exc
    ELSE IF Len(r.val) = 0 THEN Leaked("IndexError")
    ELSE IF At0(r.val, 0).t = "int" THEN Returned(At0(r.val, 0).i)
    ELSE CheckError("NoExpirationAfterFallback")

\* the re-query following a second referral to yet another registrar
RegistrarQuery_Chained ==
    /\ pc = "registrar_query"
    /\ ValidUrl(registrar_url)
    /\ \E ans \in RdapAnswers, now \in Nows :
          LET r == parse_ldap(ans, now)
              out == dispatch(r) IN
          /\ registrarResp' = IF r.exc = Hang THEN registrarResp ELSE ans
          /\ netlog' = Append(netlog, rdap_get(registrar_url, domain, cache).request)
          /\ cache' = rdap_get(registrar_url, domain, cache).cache
          /\ parsed' = parsed + (IF r.parsedBody THEN 1 ELSE 0)
          /\ raw_expiration' = IF out = NoResult THEN r.val ELSE raw_expiration
          /\ today' = IF readsClock(ans) THEN now ELSE today
          /\ IF out = NoResult
             THEN pc' = "registrar_lookup" /\ result' = result
             ELSE IF out = Hang
             THEN pc' = "hung" /\ result' = result
             ELSE pc' = "done" /\ result' = probe(out)
    /\ UNCHANGED <<domain, bootstrap, rdap_server, registryResp, csv, registrar_url,
                   run>>

\* lines 135-141: parse_ldap against the registrar
RegistrarQuery ==
    /\ pc = "registrar_query"
    /\ IF ~ValidUrl(registrar_url)
       THEN /\ result' = probe(Leaked("MissingSchema"))
            /\ pc' = "done"
            /\ UNCHANGED <<registrarResp, netlog, parsed, today, cache>>
       ELSE \E ans \in RdapAnswers, now \in Nows :
               LET r == parse_ldap(ans, now) IN
               /\ registrarResp' = IF r.exc = Hang THEN registrarResp ELSE ans
               /\ netlog' = Append(netlog, rdap_get(registrar_url, domain, cache).request)
               /\ cache' = rdap_get(registrar_url, domain, cache).cache
               /\ parsed' = parsed + (IF r.parsedBody THEN 1 ELSE 0)
               /\ today' = IF readsClock(ans) THEN now ELSE today
               /\ IF r.exc = Hang
                  THEN pc' = "hung" /\ result' = result
                  ELSE pc' = "done" /\ result' = probe(fallback(r))
    /\ UNCHANGED <<domain, bootstrap, rdap_server, registryResp, raw_expiration,
                   csv, registrar_url, run>>

\* the check is run again (lines 244-245) for the same or another domain;
\* in between, any cached response may have passed its freshness window
NextRun ==
    /\ pc = "done"
    /\ run < MaxRuns
    /\ run' = run + 1
    /\ domain' \in Domains
    /\ cache' \in SUBSET cache
    /\ pc' = "find_rdap_server"
    /\ bootstrap' = NoBootstrap
    /\ rdap_server' = ""
    /\ registryResp' = NoResponse("none")
    /\ raw_expiration' = <<>>
    /\ csv' = NoCsv
    /\ registrar_url' = ""
    /\ registrarResp' = NoResponse("none")
    /\ result' = NoResult
    /\ netlog' = <<>>
    /\ parsed' = 0
    /\ today' = NoClock

Next ==
    FindRdapServer \/ RegistryQuery \/ RegistrarLookup \/ RegistrarQuery
    \/ NextRun

Spec == Init /\ [][Next]_vars

----------------------------------------------------------------------------
(* Properties                                                              *)

RdapRequests == SelectSeq(netlog, LAMBDA q : q.op = "rdap")
CsvRequests == SelectSeq(netlog, LAMBDA q : q.op = "csv")

ClassifiedStatuses == {403, 404, 409, 503}

StatusClass(s) ==
    CASE s = 403 -> "RdapServerRefused"
      [] s = 404 -> "DomainNotFound"
      [] s = 409 -> "RdapRateLimited"
      [] s = 503 -> "RdapServerBroken"
      [] OTHER -> ""

\* the number of events of a body whose eventAction is "expiration"
NumExpiration(b) ==
    Cardinality({ j \in 1..Len(b.events) : b.events[j].eventAction = "expiration" })

\* a response that gets as far as the events/entities of a JSON body
BodyIsRead(resp) ==
    /\ resp.kind = "response"
    /\ resp.status \notin ClassifiedStatuses
    /\ resp.body.json

\* the positions of the rows of the CSV whose name field equals n,
\* case-insensitively
MatchingRowIndexes(rows, n) ==
    { j \in 1..Len(rows) : Len(rows[j]) >= 2 /\ lower(rows[j][2]) = lower(n) }

FirstMatch(rows, n) ==
    CHOOSE j \in MatchingRowIndexes(rows, n) :
        \A k \in MatchingRowIndexes(rows, n) : j <= k

\* the registrar name the registry referred to
ReferredName == raw_expiration[1].v

\* C1: a resolution issues at most two RDAP lookups (the first against the
\* registry URL, the second against the registrar URL) and at most one
\* registrar-directory fetch; once the registrar has answered, the
\* resolution is over and the registrar lookup is the last request sent.
C1_AtMostOneFallbackHop ==
    /\ Len(RdapRequests) <= 2
    /\ Len(CsvRequests) <= 1
    /\ Len(RdapRequests) >= 1 => RdapRequests[1].url = rdap_server
    /\ Len(RdapRequests) = 2 =>
          /\ Len(CsvRequests) = 1
          /\ RdapRequests[2].url = registrar_url
    /\ registrarResp.kind # "none" =>
          /\ pc = "done"
          /\ netlog[Len(netlog)] = RdapRequests[2]

\* C1 witness: the registrar answered with a second referral and the
\* resolution ended after two RDAP lookups
C1_Witness ==
    /\ pc = "done"
    /\ Len(RdapRequests) = 2
    /\ registrarResp \in { Response(200, b) : b \in ReferralBodies }

\* C2 (as claimed): after a referral to n, when the directory has a row
\* named n (case-insensitively), exactly one further RDAP lookup is sent,
\* to the URL of the first such row, for the original domain.
C2_ExactlyOneRequery ==
    (/\ pc = "done"
     /\ csv.kind = "ok"
     /\ MatchingRowIndexes(csv.rows, ReferredName) # {})
    => /\ Len(RdapRequests) = 2
       /\ Len(csv.rows[FirstMatch(csv.rows, ReferredName)]) >= 4
       /\ RdapRequests[2].url = csv.rows[FirstMatch(csv.rows, ReferredName)][4]
       /\ RdapRequests[2].domain = domain

\* C3 (as claimed): once the registrar has answered, the resolution either
\* returns the day count of the single expiration event or fails with
\* NoExpirationAfterFallback.
C3_RegistrarOutcome ==
    registrarResp.kind = "response" =>
        IF BodyIsRead(registrarResp) /\ NumExpiration(registrarResp.body) = 1
        THEN result.kind = "ok"
        ELSE result = CheckError("NoExpirationAfterFallback")

\* C4 (as claimed): when a label -> url mapping can be built from the
\* bootstrap document and the TLD is not one of its labels, the resolution
\* fails with NoRdapServerForTld and sends no RDAP lookup and no CSV fetch.
C4_NoServerForTld ==
    (/\ pc = "done"
     /\ bootstrap.kind = "ok"
     /\ ~FlattenFails(bootstrap.services)
     /\ \A g \in 1..Len(bootstrap.services) :
           \A j \in 1..Len(bootstrap.services[g].labels) :
               bootstrap.services[g].labels[j] # tld(domain))
    => /\ result = CheckError("NoRdapServerForTld")
       /\ Len(RdapRequests) = 0
       /\ Len(CsvRequests) = 0

\* C5: a response with status 403, 404, 409 or 503, from the registry or
\* from the registrar, ends the resolution with the classification of
\* that status, without its body being parsed and with no request after it.
C5_StatusShortCircuit ==
    /\ (registryResp.kind = "response" /\ registryResp.status \in ClassifiedStatuses) =>
          /\ pc = "done"
          /\ result = CheckError(StatusClass(registryResp.status))
          /\ parsed = 0
          /\ Len(netlog) = 2
    /\ (registrarResp.kind = "response" /\ registrarResp.status \in ClassifiedStatuses) =>
          /\ pc = "done"
          /\ result = CheckError(StatusClass(registrarResp.status))
          /\ parsed = 1
          /\ Len(netlog) = 4

\* C5 witness: the registrar answered 404 with a body that is not JSON
C5_Witness ==
    /\ pc = "done"
    /\ registrarResp = Response(404, Body(FALSE, <<>>, <<>>))

\* C6: a response whose body is read and has more than one expiration
\* event ends the resolution with AmbiguousExpirationData and no request
\* after it, whether or not the body names a registrar.
C6_Ambiguous ==
    /\ (BodyIsRead(registryResp) /\ NumExpiration(registryResp.body) > 1) =>
          /\ pc = "done"
          /\ result = CheckError("AmbiguousExpirationData")
          /\ Len(netlog) = 2
          /\ csv.kind = "none"
    /\ (BodyIsRead(registrarResp) /\ NumExpiration(registrarResp.body) > 1) =>
          /\ pc = "done"
          /\ result = CheckError("AmbiguousExpirationData")
          /\ Len(netlog) = 4

\* C6 witness: the registry answered with two expiration events and a
\* registrar entity
C6_Witness ==
    /\ pc = "done"
    /\ BodyIsRead(registryResp)
    /\ NumExpiration(registryResp.body) = 2
    /\ Len(registryResp.body.entities) = 1

\* a body from which no registrar name can be taken
NoRegistrarName(b) ==
    \/ \E j \in 1..Len(b.entities) : ~b.entities[j].hasRoles
    \/ \A j \in 1..Len(b.entities) : "registrar" \notin b.entities[j].roles
    \/ \E j \in 1..Len(b.entities) :
          /\ "registrar" \in b.entities[j].roles
          /\ \A k \in 1..(j - 1) : "registrar" \notin b.entities[k].roles
          /\ \/ ~b.entities[j].hasVcard
             \/ \A l \in 1..Len(b.entities[j].lines) :
                   \/ ~HasFn(b.entities[j].lines[l])
                   \/ Len(b.entities[j].lines[l]) < 4
                   \/ b.entities[j].lines[l][4].t # "str"

\* C7 (as claimed): a registry body with no expiration event and no
\* registrar name fails with NoExpirationAndNoRegistrar.
C7_NoExpirationNoRegistrar ==
    (/\ BodyIsRead(registryResp)
     /\ NumExpiration(registryResp.body) = 0
     /\ NoRegistrarName(registryResp.body))
    => result = CheckError("NoExpirationAndNoRegistrar")

\* C8 (as claimed): after a referral to a name no row of the directory
\* carries, the resolution fails with RegistrarNotFound and sends no
\* second RDAP lookup.
C8_RegistrarNotFound ==
    (/\ csv.kind = "ok"
     /\ MatchingRowIndexes(csv.rows, ReferredName) = {})
    => /\ pc = "done"
       /\ result = CheckError("RegistrarNotFound")
       /\ Len(RdapRequests) = 1

Taxonomy ==
    { "InvalidDomainFormat", "BootstrapUnavailable", "BootstrapMalformed",
      "NoRdapServerForTld", "RdapConnectionFailed", "RdapServerRefused",
      "DomainNotFound", "RdapRateLimited", "RdapServerBroken",
      "NoExpirationAndNoRegistrar", "AmbiguousExpirationData",
      "RegistrarNotFound", "NoExpirationAfterFallback" }

\* C9 (as claimed): a finished resolution either returned a day count or
\* failed with a CheckError of one of the classifications.
C9_ClassifiedOutcome ==
    pc = "done" =>
        \/ result.kind = "ok"
        \/ result.kind = "CheckError" /\ result.class \in Taxonomy

\* C10 (as claimed): a transport failure of the bootstrap fetch is
\* reported as BootstrapUnavailable and one of an RDAP lookup as
\* RdapConnectionFailed.
C10_TransportReclassified ==
    /\ bootstrap.kind \in {"ConnectionError", "ReadTimeout"} =>
          result = CheckError("BootstrapUnavailable")
    /\ registryResp.kind = "ConnectionError" =>
          result = CheckError("RdapConnectionFailed")
    /\ registrarResp.kind = "ConnectionError" =>
          result = CheckError("RdapConnectionFailed")

\* the RDAP response the resolution ended on
LastResp == IF registrarResp.kind = "none" THEN registryResp ELSE registrarResp

\* the eventDate of the single expiration event of a body
TheExpiration(b) ==
    b.events[CHOOSE j \in 1..Len(b.events) : b.events[j].eventAction = "expiration"]
        .eventDate

\* a response that is read and has exactly one expiration event, with a
\* date that parses
ExpirationFound(resp) ==
    /\ BodyIsRead(resp)
    /\ NumExpiration(resp.body) = 1
    /\ \A j \in 1..Len(resp.body.events) :
          resp.body.events[j].eventAction = "expiration" =>
              resp.body.events[j].hasDate /\ resp.body.events[j].eventDate.wellformed

\* seconds from the instant `today` to midnight of the day of dt
SecondsUntil(dt) == dt.day * SecondsPerDay - (today.day * SecondsPerDay + today.secs)

\* C11 (amended): for a response with one expiration event the returned
\* day count d is the floor of (E - now) in days, E being midnight of the
\* date of eventDate whatever its time portion: d days <= E - now < d + 1
\* days; d is negative exactly when E is before now; for eventDate
\* 2030-01-01 (day 31) resolved on 2029-12-01 (day 0) d is 31 at midnight
\* exactly and 30 at every later instant of that day.
C11_FloorOfDayDifference ==
    (pc = "done" /\ ExpirationFound(LastResp)) =>
        /\ result.kind = "ok"
        /\ result.days * SecondsPerDay <= SecondsUntil(TheExpiration(LastResp.body))
        /\ SecondsUntil(TheExpiration(LastResp.body)) < (result.days + 1) * SecondsPerDay
        /\ (result.days < 0) <=> (SecondsUntil(TheExpiration(LastResp.body)) < 0)
        /\ (TheExpiration(LastResp.body).day = 31 /\ today.day = 0) =>
              result.days = (IF today.secs = 0 THEN 31 ELSE 30)

\* C11 witness: an expiration date already passed, resolved after midnight
C11_Witness ==
    /\ pc = "done"
    /\ ExpirationFound(LastResp)
    /\ TheExpiration(LastResp.body).day = -1
    /\ today.secs > 0
    /\ result.kind = "ok"

\* C11 (as claimed): eventDate 2030-01-01 resolved at any instant of
\* 2029-12-01 gives 31.
C11_AnyInstantGives31 ==
    (/\ pc = "done"
     /\ ExpirationFound(LastResp)
     /\ TheExpiration(LastResp.body).day = 31
     /\ today.day = 0)
    => result = Returned(31)

IanaUrls == {BootstrapUrl, RegistrarIdsUrl}

\* C12: an RDAP domain lookup never goes through the cache store: each one
\* is sent over the network, the cache holds responses of the two IANA
\* URLs only, and the only requests made through the caching session are
\* the bootstrap fetch and the registrar CSV fetch.
C12_RdapNeverCached ==
    /\ cache \subseteq IanaUrls
    /\ \A j \in 1..Len(netlog) :
          /\ netlog[j].op = "rdap" => ~netlog[j].cached /\ netlog[j].network
          /\ netlog[j].cached => netlog[j].url \in IanaUrls
    /\ registryResp.kind # "none" =>
          \E j \in 1..Len(netlog) :
              netlog[j] = Request("rdap", rdap_server, domain, FALSE, FALSE, TRUE)
    /\ registrarResp.kind # "none" =>
          \E j \in 1..Len(netlog) :
              netlog[j] = Request("rdap", registrar_url, domain, FALSE, FALSE, TRUE)

\* C12 witness: a second run, with both IANA resources cached, has sent
\* its registry and its registrar lookup over the network
C12_Witness ==
    /\ run = 2
    /\ pc = "done"
    /\ cache = IanaUrls
    /\ Len(RdapRequests) = 2
    /\ \A j \in 1..Len(netlog) : netlog[j].network <=> netlog[j].op = "rdap"

\* the request made by the step, if the step made one
Sent == Len(netlog') = Len(netlog) + 1
LastSent == netlog'[Len(netlog')]

\* the load of u made by the step got a response, not an exception
Answered(u) ==
    IF u = BootstrapUrl
    THEN bootstrap'.kind \in {"ok", "notjson"}
    ELSE csv'.kind = "ok"

\* C13: a load of an IANA resource made while a fresh response for its URL
\* is in the cache store sends nothing over the network and leaves the
\* entry in place, and a load answered over the network leaves its
\* response in the store: of two loads within the freshness window at
\* most the first one is a network fetch.
C13_CacheIdempotent ==
    [][ \A u \in IanaUrls :
          (Sent /\ LastSent.url = u) =>
              /\ LastSent.cached
              /\ (u \in cache) => (~LastSent.network /\ u \in cache')
              /\ (u \notin cache) =>
                    /\ LastSent.network
                    /\ Answered(u) => u \in cache' ]_vars

\* C13 witness: in the second run both loads were answered from the store
C13_Witness ==
    /\ run = 2
    /\ Len(netlog) >= 3
    /\ netlog[1].op = "bootstrap" /\ ~netlog[1].network
    /\ netlog[3].op = "csv" /\ ~netlog[3].network

\* the positions of the well-formed rows (four columns, an RDAP URL) of
\* the CSV whose name field equals n, case-insensitively
WellFormedMatches(rows, n) ==
    { j \in 1..Len(rows) :
          /\ Len(rows[j]) >= 4
          /\ rows[j][4] # ""
          /\ lower(rows[j][2]) = lower(n) }

FirstWellFormedMatch(rows, n) ==
    CHOOSE j \in WellFormedMatches(rows, n) :
        \A k \in WellFormedMatches(rows, n) : j <= k

\* C14 (as claimed): malformed rows are skipped: after a referral, the
\* lookup resolves to the URL of the first well-formed matching row of the
\* CSV, and with no such row the resolution ends in RegistrarNotFound.
C14_TolerantParsing ==
    csv.kind = "ok" =>
        IF WellFormedMatches(csv.rows, ReferredName) # {}
        THEN /\ result.kind # "leak" \/ registrarResp.kind # "none"
             /\ registrar_url = csv.rows[FirstWellFormedMatch(csv.rows, ReferredName)][4]
        ELSE result = CheckError("RegistrarNotFound")

\* C15 (as claimed): every call to the network carries a timeout, no
\* resolution stays blocked in a call, and a timeout that expires ends the
\* resolution with BootstrapUnavailable or RdapConnectionFailed.
C15_EveryCallTimesOut ==
    /\ \A j \in 1..Len(netlog) : netlog[j].timeout
    /\ pc # "hung"
    /\ bootstrap.kind = "ReadTimeout" => result = CheckError("BootstrapUnavailable")
    /\ csv.kind = "ReadTimeout" =>
          result \in {CheckError("RdapConnectionFailed"), CheckError("BootstrapUnavailable")}

\* the groups of the bootstrap document that list the label t
GroupsWith(services, t) ==
    { g \in 1..Len(services) :
          \E j \in 1..Len(services[g].labels) : services[g].labels[j] = t }

\* C16: when the bootstrap document is usable and some group lists the
\* TLD exactly as written, the resolver goes on with the first URL of the
\* first such group in document order; otherwise no URL is resolved.
C16_FirstGroupFirstUrl ==
    (bootstrap.kind = "ok" /\ ~FlattenFails(bootstrap.services)) =>
        IF GroupsWith(bootstrap.services, tld(domain)) # {}
        THEN \E g \in GroupsWith(bootstrap.services, tld(domain)) :
                /\ \A h \in GroupsWith(bootstrap.services, tld(domain)) : g <= h
                /\ rdap_server = bootstrap.services[g].urls[1]
                /\ pc = "registry_query"
        ELSE rdap_server = "" /\ pc = "done" /\ result.kind # "ok"

\* C16 witness: "com" is listed by two groups with different URL lists, the
\* first of them with two URLs, and the registry lookup went to its first
C16_Witness ==
    /\ tld(domain) = "com"
    /\ bootstrap.kind = "ok"
    /\ Cardinality(GroupsWith(bootstrap.services, "com")) = 2
    /\ Len(bootstrap.services[1].urls) = 2
    /\ bootstrap.services[2].urls[1] # bootstrap.services[1].urls[1]
    /\ pc = "registry_query"
    /\ rdap_server = "https://r1/"

\* C16 second witness is the upper-case TLD, which no lower-case label matches
C16_CaseWitness ==
    /\ tld(domain) = "COM"
    /\ bootstrap.kind = "ok"
    /\ GroupsWith(bootstrap.services, "com") # {}
    /\ result = CheckError("NoRdapServerForTld")

StatusClasses ==
    { "RdapServerRefused", "DomainNotFound", "RdapRateLimited", "RdapServerBroken" }

\* what the same body gives when it comes with status 200
As200(resp) == parse_ldap(Response(200, resp.body), today)

\* C17: a response with a status other than 403, 404, 409 and 503 is never
\* failed for its status: its body is parsed and the lookup gives what the
\* same body gives with status 200, for the registry (the value handed to
\* the resolver and the outcome when the run ends there) and for the
\* registrar (the outcome of the run).
C17_OtherStatusParsesBody ==
    /\ (registryResp.kind = "response" /\ registryResp.status \notin ClassifiedStatuses) =>
          /\ parsed >= 1
          /\ raw_expiration = As200(registryResp).val
          /\ (pc = "done" /\ csv.kind = "none") =>
                /\ result = probe(dispatch(As200(registryResp)))
                /\ result.class \notin StatusClasses
          /\ (pc # "done" \/ csv.kind # "none") => dispatch(As200(registryResp)) = NoResult
    /\ (registrarResp.kind = "response" /\ registrarResp.status \notin ClassifiedStatuses) =>
          /\ parsed = 2
          /\ pc = "done"
          /\ result = probe(fallback(As200(registrarResp)))
          /\ result.class \notin StatusClasses

\* C17 witness: the registry answered 500 with one expiration event in the
\* body and the run returned its day count
C17_Witness ==
    /\ pc = "done"
    /\ registryResp.kind = "response"
    /\ registryResp.status = 500
    /\ NumExpiration(registryResp.body) = 1
    /\ result.kind = "ok"

Order == <<"bootstrap", "rdap", "csv", "rdap">>

\* C18: the requests of a run are made in the order bootstrap fetch,
\* registry lookup, registrar CSV fetch, registrar lookup, each only after
\* the one before it; the CSV is fetched only when the registry answered
\* with a referral to a named registrar; and when the registry answered
\* with its expiration date the run returns that day count after one RDAP
\* lookup and no CSV fetch.
C18_SequentialLazyFallback ==
    /\ Len(netlog) <= Len(Order)
    /\ \A j \in 1..Len(netlog) : netlog[j].op = Order[j]
    /\ Len(netlog) = 1 => bootstrap.kind # "none"
    /\ Len(netlog) >= 2 => rdap_server # ""
    /\ Len(netlog) >= 3 =>
          /\ BodyIsRead(registryResp)
          /\ NumExpiration(registryResp.body) = 0
          /\ ~NoRegistrarName(registryResp.body)
    /\ Len(netlog) = 4 => csv.kind = "ok"
    /\ ExpirationFound(registryResp) =>
          /\ pc = "done"
          /\ result = Returned(raw_expiration[1].i)
          /\ Len(RdapRequests) = 1
          /\ Len(CsvRequests) = 0
          /\ csv.kind = "none"

\* C18 witness: the registry gave the expiration date and the run returned
\* after the bootstrap fetch and one RDAP lookup
C18_Witness ==
    /\ pc = "done"
    /\ ExpirationFound(registryResp)
    /\ result.kind = "ok"
    /\ Len(netlog) = 2

====
